---- MODULE Spec2Model ----
(***************************************************************************)
(* Model of gflydev/http: the string sanitizer (SanitizeString), the       *)
(* reflection walk (SanitizeStruct / sanitizeValue) and the request        *)
(* helpers (ProcessData, ProcessUpdateData).                               *)
(*                                                                         *)
(* A Go string is a sequence of characters; a character is a one-element   *)
(* TLA+ string, except the two characters that have no TLA+ literal:       *)
(* NUL (the byte 0x00) and REPL (U+FFFD).                                  *)
(***************************************************************************)
EXTENDS Integers, Sequences, FiniteSets, TLC

VARIABLES
    pc,         \* position of the running call
    trimNul,    \* whether str.Trim's cut set holds the null byte: the library
                \* is not part of the repository, both cut sets are explored
    input,      \* SanitizeString: the argument
    clean,      \* SanitizeString: the result
    again,      \* SanitizeString applied to its own result
    heap,       \* the value graph: node -> contents
    heap0,      \* the value graph as it was when the call started
    target,     \* SanitizeStruct's argument
    stack,      \* pending sanitizeValue calls, innermost first
    ret,        \* where the caller of SanitizeStruct continues
    depths,     \* per pending call, the recursion depth it runs at
    visits,     \* per location, the sanitizeValue calls made on it
    handler,    \* the request helper that runs
    typeT,      \* the helper's type argument T
    pathVal,    \* the request's "id" path parameter
    body,       \* the request's body
    itemID,     \* ProcessUpdateData's local itemID
    data,       \* the context's data: key -> stored value
    resp,       \* what the helper returned
    calls,      \* the calls the helper made, in order
    query,      \* the request's query parameters
    filterDto   \* what FilterData returned

strVars == <<input, clean, again>>
countVars == <<depths, visits>>
walkVars == <<heap, heap0, target, stack, ret, countVars>>
filterVars == <<query, filterDto>>
procVars == <<handler, typeT, pathVal, body, itemID, data, resp, calls, filterVars>>
vars == <<pc, trimNul, strVars, walkVars, procVars>>

\* ------------------------------------------------------------------
\* Characters
\* ------------------------------------------------------------------

NUL == "NUL"
REPL == "U+FFFD"
None == <<"none">>

Whitespace == {" ", "\n", "\t", "\r"}

Letters == {"a", "c", "g", "i", "l", "m", "p", "r", "s", "t",
            "C", "I", "P", "R", "S", "T"}
Digits == {"0", "1", "2", "3", "6"}

\* (?i): the regular expression folds case
ToLower(c) ==
    CASE c = "S" -> "s"
      [] c = "C" -> "c"
      [] c = "R" -> "r"
      [] c = "I" -> "i"
      [] c = "P" -> "p"
      [] c = "T" -> "t"
      [] OTHER -> c

DigitVal(c) ==
    CASE c = "0" -> 0
      [] c = "1" -> 1
      [] c = "2" -> 2
      [] c = "3" -> 3
      [] c = "6" -> 6
      [] OTHER -> 0

RECURSIVE Concat(_)
Concat(ss) == IF ss = <<>> THEN <<>> ELSE Head(ss) \o Concat(Tail(ss))

\* ------------------------------------------------------------------
\* scriptTagPattern = (?is)<script.*?>.*?</script>
\* ------------------------------------------------------------------

ScriptOpen == <<"<", "s", "c", "r", "i", "p", "t">>
ScriptClose == <<"<", "/", "s", "c", "r", "i", "p", "t", ">">>

\* the literal pat occurs in s at position i, letters compared case-folded
MatchesAt(s, i, pat) ==
    /\ i >= 1
    /\ i + Len(pat) - 1 <= Len(s)
    /\ \A k \in 1..Len(pat) : ToLower(s[i + k - 1]) = pat[k]

\* least element of a non-empty set of integers
Least(S) == CHOOSE x \in S : \A y \in S : x <= y

\* A match starting at i: "<script", then the first ">" (the lazy .*? with
\* the s flag crosses any character), then the first "</script>" after it.
\* The result is the index of the match's last character, 0 when no match
\* starts at i.
MatchEnd(s, i) ==
    IF ~MatchesAt(s, i, ScriptOpen) THEN 0
    ELSE LET gts == {j \in (i + Len(ScriptOpen))..Len(s) : s[j] = ">"}
         IN  IF gts = {} THEN 0
             ELSE LET j == Least(gts)
                      cls == {k \in (j + 1)..Len(s) : MatchesAt(s, k, ScriptClose)}
                  IN  IF cls = {} THEN 0
                      ELSE Least(cls) + Len(ScriptClose) - 1

\* scriptTagPattern.ReplaceAllString(s, ""): leftmost matches, not overlapping
RECURSIVE ReplaceAllScript(_)
ReplaceAllScript(s) ==
    LET starts == {i \in 1..Len(s) : MatchEnd(s, i) # 0}
    IN  IF starts = {} THEN s
        ELSE LET i == Least(starts)
                 e == MatchEnd(s, i)
             IN  SubSeq(s, 1, i - 1) \o ReplaceAllScript(SubSeq(s, e + 1, Len(s)))

\* whether s holds a <script ...>...</script> sequence
HasScriptBlock(s) == \E i \in 1..Len(s) : MatchEnd(s, i) # 0

\* ------------------------------------------------------------------
\* str.Trim: strips the cut set from both ends
\* ------------------------------------------------------------------

CutSet(nul) == IF nul THEN Whitespace \cup {NUL} ELSE Whitespace

RECURSIVE TrimLeft(_, _)
TrimLeft(s, cut) ==
    IF s # <<>> /\ Head(s) \in cut THEN TrimLeft(Tail(s), cut) ELSE s

RECURSIVE TrimRight(_, _)
TrimRight(s, cut) ==
    IF s # <<>> /\ s[Len(s)] \in cut
    THEN TrimRight(SubSeq(s, 1, Len(s) - 1), cut) ELSE s

Trim(s, nul) == TrimRight(TrimLeft(s, CutSet(nul)), CutSet(nul))

\* ------------------------------------------------------------------
\* html.UnescapeString
\* ------------------------------------------------------------------

\* the character of a numeric reference
CharOfCode(x) ==
    CASE x = 0 -> REPL
      [] x = 10 -> "\n"
      [] x = 32 -> " "
      [] x = 38 -> "&"
      [] x = 60 -> "<"
      [] x = 62 -> ">"
      [] OTHER -> "?"

\* the named references of the model: html's table holds these names with
\* and without the closing semicolon; <<>> is "not a reference"
Entity(name) ==
    CASE name = <<"l", "t", ";">> -> <<"<">>
      [] name = <<"l", "t">> -> <<"<">>
      [] name = <<"g", "t", ";">> -> <<">">>
      [] name = <<"g", "t">> -> <<">">>
      [] name = <<"a", "m", "p", ";">> -> <<"&">>
      [] name = <<"a", "m", "p">> -> <<"&">>
      [] OTHER -> <<>>

\* length of the longest prefix of s, from index i on, made of characters of S
RECURSIVE RunLen(_, _, _)
RunLen(s, i, S) ==
    IF i <= Len(s) /\ s[i] \in S THEN 1 + RunLen(s, i + 1, S) ELSE 0

RECURSIVE DecimalValue(_)
DecimalValue(ds) ==
    IF ds = <<>> THEN 0
    ELSE 10 * DecimalValue(SubSeq(ds, 1, Len(ds) - 1)) + DigitVal(ds[Len(ds)])

\* unescapeEntity on s, whose first character is "&": the decoded text and
\* the number of characters of s it stands for
UnescapeEntity(s) ==
    LET literal == [out |-> <<"&">>, used |-> 1]
    IN  IF Len(s) <= 1 THEN literal
        ELSE IF s[2] = "#"
        THEN IF Len(s) <= 3 THEN literal
             ELSE LET n == RunLen(s, 3, Digits)
                      semi == IF 3 + n <= Len(s) /\ s[3 + n] = ";" THEN 1 ELSE 0
                  IN  IF 2 + n + semi <= 3 THEN literal
                      ELSE [out |-> <<CharOfCode(DecimalValue(SubSeq(s, 3, 2 + n)))>>,
                            used |-> 2 + n + semi]
        ELSE LET n == RunLen(s, 2, Letters \cup Digits)
                 semi == IF 2 + n <= Len(s) /\ s[2 + n] = ";" THEN 1 ELSE 0
                 name == SubSeq(s, 2, 1 + n + semi)
                 \* a known name that is a proper prefix of the run
                 pre == {j \in 2..(Len(name) - 1) : Entity(SubSeq(name, 1, j)) # <<>>}
                 longest == CHOOSE j \in pre : \A k \in pre : k <= j
             IN  IF name = <<>> THEN literal
                 ELSE IF Entity(name) # <<>>
                 THEN [out |-> Entity(name), used |-> 1 + Len(name)]
                 ELSE IF pre # {}
                 THEN [out |-> Entity(SubSeq(name, 1, longest)), used |-> 1 + longest]
                 ELSE [out |-> <<"&">> \o name, used |-> 1 + Len(name)]

RECURSIVE UnescapeString(_)
UnescapeString(s) ==
    IF s = <<>> THEN <<>>
    ELSE IF Head(s) # "&" THEN <<Head(s)>> \o UnescapeString(Tail(s))
    ELSE LET d == UnescapeEntity(s)
         IN  d.out \o UnescapeString(SubSeq(s, d.used + 1, Len(s)))

\* strings.ReplaceAll(s, "\x00", "")
RemoveNul(s) == SelectSeq(s, LAMBDA c : c # NUL)

\* ------------------------------------------------------------------
\* SanitizeString
\* ------------------------------------------------------------------

SanitizeString(s, nul) ==
    IF s = <<>> THEN <<>>
    ELSE RemoveNul(UnescapeString(Trim(ReplaceAllScript(s), nul)))

\* ------------------------------------------------------------------
\* The strings SanitizeString is applied to: up to MaxAtoms pieces of markup
\* ------------------------------------------------------------------

MaxAtoms == 3

Atoms ==
    { ScriptOpen,
      <<">">>,
      ScriptClose,
      <<"<", "/", "S", "C", "R", "I", "P", "T", ">">>,
      <<"a">>,
      <<" ">>,
      <<"\n">>,
      <<NUL>>,
      <<"&", "l", "t", ";">>,
      <<"&", "a", "m", "p", ";">>,
      <<"l", "t", ";">>,
      <<"&", "#", "3", "2", ";">>,
      <<"&", "l", "t", ";", "s", "c", "r", "i", "p", "t", "&", "g", "t", ";">>,
      <<"&", "l", "t", ";", "/", "s", "c", "r", "i", "p", "t", "&", "g", "t", ";">> }

RECURSIVE AtomSeqs(_)
AtomSeqs(n) ==
    IF n = 0 THEN {<<>>}
    ELSE LET shorter == AtomSeqs(n - 1)
         IN  shorter \cup {<<a>> \o q : a \in Atoms, q \in {r \in shorter : Len(r) = n - 1}}

Inputs == {Concat(q) : q \in AtomSeqs(MaxAtoms)}

\* ------------------------------------------------------------------
\* Specification of SanitizeString as a function of its argument
\* ------------------------------------------------------------------

InitString ==
    /\ pc = "string"
    /\ trimNul \in BOOLEAN
    /\ input \in Inputs
    /\ clean = None
    /\ again = None
    /\ heap = <<>> /\ heap0 = <<>> /\ target = None /\ stack = <<>> /\ ret = "done"
    /\ depths = <<>> /\ visits = <<>>
    /\ query = None /\ filterDto = None
    /\ handler = "none" /\ typeT = "none"
    /\ pathVal = <<>> /\ body = None /\ itemID = 0 /\ data = <<>>
    /\ resp = None /\ calls = <<>>

\* clean := SanitizeString(input)
CallSanitizeString ==
    /\ pc = "string"
    /\ clean = None
    /\ clean' = SanitizeString(input, trimNul)
    /\ UNCHANGED <<pc, trimNul, input, again, walkVars, procVars>>

\* again := SanitizeString(clean)
CallSanitizeStringAgain ==
    /\ pc = "string"
    /\ clean # None
    /\ again = None
    /\ again' = SanitizeString(clean, trimNul)
    /\ UNCHANGED <<pc, trimNul, input, clean, walkVars, procVars>>

NextString == CallSanitizeString \/ CallSanitizeStringAgain

SpecString == InitString /\ [][NextString]_vars

\* ------------------------------------------------------------------
\* The value graph SanitizeStruct walks.  A node is a memory location; 0 is
\* the nil pointer.  Kinds are reflect's: "string", "int", "ptr", "struct",
\* "slice", "array", "map", "interface".
\*   str   a string's characters (for "interface": the string it holds)
\*   num   an int's value
\*   ptr   a pointer's referent
\*   kids  a struct's fields, a slice's or an array's elements (locations)
\*   vis   per struct field: "exp" (exported), "unexp" (unexported),
\*         "embed" (embedded field of an unexported type)
\*   ents  a map's entries: key -> [kind, str]; a map value is no location
\* ------------------------------------------------------------------

StringNode(s) ==
    [kind |-> "string", str |-> s, num |-> 0, ptr |-> 0, kids |-> <<>>, vis |-> <<>>, ents |-> <<>>]
IntNode(n) ==
    [kind |-> "int", str |-> <<>>, num |-> n, ptr |-> 0, kids |-> <<>>, vis |-> <<>>, ents |-> <<>>]
PtrNode(n) ==
    [kind |-> "ptr", str |-> <<>>, num |-> 0, ptr |-> n, kids |-> <<>>, vis |-> <<>>, ents |-> <<>>]
StructNode(fields, exported) ==
    [kind |-> "struct", str |-> <<>>, num |-> 0, ptr |-> 0, kids |-> fields, vis |-> exported, ents |-> <<>>]
SliceNode(elems) ==
    [kind |-> "slice", str |-> <<>>, num |-> 0, ptr |-> 0, kids |-> elems, vis |-> <<>>, ents |-> <<>>]
ArrayNode(elems) ==
    [kind |-> "array", str |-> <<>>, num |-> 0, ptr |-> 0, kids |-> elems, vis |-> <<>>, ents |-> <<>>]
MapNode(entries) ==
    [kind |-> "map", str |-> <<>>, num |-> 0, ptr |-> 0, kids |-> <<>>, vis |-> <<>>, ents |-> entries]
InterfaceNode(s) ==
    [kind |-> "interface", str |-> s, num |-> 0, ptr |-> 0, kids |-> <<>>, vis |-> <<>>, ents |-> <<>>]

\* A reflect.Value: the location it stands for (0: the zero Value), its
\* read-only flags (flagStickyRO, flagEmbedRO), whether it is addressable
\* (flagAddr), and whether it is the pointer &node made by Addr() rather
\* than the location itself.
Value(n, ro, addr, ref) == [node |-> n, ro |-> ro, addr |-> addr, ref |-> ref]

IsValid(v) == v.node # 0
Kind(h, v) == IF v.ref THEN "ptr" ELSE h[v.node].kind
CanSet(v) == v.addr /\ v.ro = {}
CanAddr(v) == v.addr
CanInterface(v) == v.ro = {}
\* flag.ro(): any read-only flag becomes flagStickyRO
StickyOf(ro) == IF ro # {} THEN {"sticky"} ELSE {}

\* v.Addr(): keeps flagRO
Addr(v) == Value(v.node, v.ro, FALSE, TRUE)

\* v.Elem() of a pointer: keeps flagRO, addressable; the zero Value for nil
Elem(h, v) ==
    IF v.ref THEN Value(v.node, v.ro, TRUE, FALSE)
    ELSE Value(h[v.node].ptr, v.ro, TRUE, FALSE)

IsNil(h, v) == ~v.ref /\ h[v.node].ptr = 0

\* v.Field(i): inherits flagStickyRO and flagAddr, an unexported field adds
\* its own read-only flag
Field(h, v, i) ==
    LET own == CASE h[v.node].vis[i] = "unexp" -> {"sticky"}
                 [] h[v.node].vis[i] = "embed" -> {"embed"}
                 [] OTHER -> {}
    IN  Value(h[v.node].kids[i], (v.ro \cap {"sticky"}) \cup own, v.addr, FALSE)

\* v.Index(i): a slice's element is addressable, an array's as the array is
Index(h, v, i) ==
    Value(h[v.node].kids[i], StickyOf(v.ro),
          IF h[v.node].kind = "slice" THEN TRUE ELSE v.addr, FALSE)

\* What one sanitizeValue call does before it recurses: the graph after it,
\* the calls it makes (in order), and whether it panicked.
Outcome(h, calls_, panicked) == [heap |-> h, push |-> calls_, panic |-> panicked]

\* sanitizeValue on a pointer, with a cycle check the code does not have:
\* a pointee an earlier call was made on is not entered again
VisitPointerOnce(h, v) ==
    IF IsNil(h, v) \/ visits[Elem(h, v).node] > 0 THEN Outcome(h, <<>>, FALSE)
    ELSE Outcome(h, <<Elem(h, v)>>, FALSE)

VisitPointer(h, v) ==
    IF IsNil(h, v) THEN Outcome(h, <<>>, FALSE)
    ELSE Outcome(h, <<Elem(h, v)>>, FALSE)

\* the call made for field i of a struct: none when the field can neither be
\* set nor addressed
FieldCall(h, v, i) ==
    LET field == Field(h, v, i)
    IN  IF CanSet(field) THEN <<field>>
        ELSE IF CanAddr(field) THEN <<Addr(field)>>
        ELSE <<>>

VisitStruct(h, v) ==
    Outcome(h, Concat([i \in 1..Len(h[v.node].kids) |-> FieldCall(h, v, i)]), FALSE)

ElemCall(h, v, i) ==
    LET elem == Index(h, v, i)
    IN  IF CanAddr(elem) THEN <<Addr(elem)>> ELSE <<elem>>

VisitSlice(h, v) ==
    Outcome(h, Concat([i \in 1..Len(h[v.node].kids) |-> ElemCall(h, v, i)]), FALSE)

\* a map: MapIndex gives a read-only element when the map is read-only, and
\* then CanInterface is false; a string element is replaced by SetMapIndex
VisitMapNoWriteBack(h, v, nul) ==
    Outcome(h, <<>>, FALSE)

VisitMapAnyKind(h, v, nul) ==
    Outcome([h EXCEPT ![v.node].ents =
                [k \in DOMAIN h[v.node].ents |->
                    [kind |-> "string",
                     str |-> SanitizeString(h[v.node].ents[k].str, nul)]]],
            <<>>, FALSE)

VisitMap(h, v, nul) ==
    LET m == h[v.node].ents
        elemRO == StickyOf(v.ro)
    IN  Outcome([h EXCEPT ![v.node].ents =
                    [k \in DOMAIN m |->
                        IF elemRO = {} /\ m[k].kind = "string"
                        THEN [m[k] EXCEPT !.str = SanitizeString(m[k].str, nul)]
                        ELSE m[k]]],
                <<>>, FALSE)

\* a string: SetString panics on a Value that is read-only or not addressable
VisitString(h, v, nul) ==
    IF ~CanSet(v) THEN Outcome(h, <<>>, TRUE)
    ELSE Outcome([h EXCEPT ![v.node].str = SanitizeString(h[v.node].str, nul)],
                 <<>>, FALSE)

sanitizeValue(h, v, nul) ==
    IF ~IsValid(v) THEN Outcome(h, <<>>, FALSE)
    ELSE CASE Kind(h, v) = "ptr" -> VisitPointer(h, v)
           [] Kind(h, v) = "struct" -> VisitStruct(h, v)
           [] Kind(h, v) \in {"slice", "array"} -> VisitSlice(h, v)
           [] Kind(h, v) = "map" -> VisitMap(h, v, nul)
           [] Kind(h, v) = "string" -> VisitString(h, v, nul)
           [] OTHER -> Outcome(h, <<>>, FALSE)

\* SanitizeStruct's argument, an `any`:
\*   [tag |-> "nil"]              the nil interface
\*   [tag |-> "ptr", node |-> n]  a pointer to location n (n = 0: a nil pointer)
\*   [tag |-> "val", node |-> n]  a copy of the value at location n, not a pointer
NilTarget == [tag |-> "nil", node |-> 0]
PtrTarget(n) == [tag |-> "ptr", node |-> n]
ValTarget(n) == [tag |-> "val", node |-> n]

\* the sanitizeValue calls SanitizeStruct starts with
EntryCallsNoKindCheck(tgt) ==
    IF tgt.tag = "nil" THEN <<>>
    ELSE IF tgt.tag = "val" THEN <<Value(tgt.node, {}, FALSE, FALSE)>>
    ELSE <<Value(tgt.node, {}, TRUE, FALSE)>>

EntryCalls(tgt) ==
    IF tgt.tag = "nil" THEN <<>>
    ELSE IF tgt.tag # "ptr" THEN <<>>
    ELSE <<Value(tgt.node, {}, TRUE, FALSE)>>

\* SanitizeStruct(target), up to its call of sanitizeValue
SanitizeStruct ==
    /\ pc = "call"
    /\ stack' = EntryCalls(target)
    /\ depths' = [i \in 1..Len(stack') |-> 1]
    /\ visits' = [n \in DOMAIN heap |-> 0]
    /\ pc' = "walk"
    /\ calls' = Append(calls, "SanitizeStruct")
    /\ UNCHANGED <<trimNul, strVars, heap, heap0, target, ret>>
    /\ UNCHANGED <<handler, typeT, pathVal, body, itemID, data, resp, filterVars>>

\* The recursion depth the model lets a walk reach: the stand-in for the
\* size of the goroutine stack, which the runtime ends the program at.
MaxDepth == 8

\* one call of sanitizeValue: the innermost pending one.  The calls it makes
\* run one level deeper; a call deeper than the stack allows is fatal.
SanitizeValue ==
    /\ pc = "walk"
    /\ stack # <<>>
    /\ IF Head(depths) > MaxDepth
       THEN /\ pc' = "overflow"
            /\ UNCHANGED <<heap, stack, depths, visits>>
       ELSE LET v == Head(stack)
                r == sanitizeValue(heap, v, trimNul)
            IN  /\ heap' = r.heap
                /\ visits' = IF IsValid(v) THEN [visits EXCEPT ![v.node] = @ + 1]
                              ELSE visits
                /\ IF r.panic
                   THEN pc' = "panic" /\ UNCHANGED <<stack, depths>>
                   ELSE /\ pc' = pc
                        /\ stack' = r.push \o Tail(stack)
                        /\ depths' = [i \in 1..Len(r.push) |-> Head(depths) + 1]
                                        \o Tail(depths)
    /\ UNCHANGED <<trimNul, strVars, heap0, target, ret, procVars>>

\* SanitizeStruct returns to its caller
Return ==
    /\ pc = "walk"
    /\ stack = <<>>
    /\ pc' = ret
    /\ UNCHANGED <<trimNul, strVars, walkVars, procVars>>

\* ------------------------------------------------------------------
\* The value graphs SanitizeStruct is called on.  Location 1 is the value the pointer
\* handed to SanitizeStruct refers to; s and t fill the string leaves.
\* ------------------------------------------------------------------

Amp == <<"&", "a", "m", "p", ";">>

LeafStrs ==
    { <<"a">>,
      <<" ", "a", " ">>,
      Amp \o <<"l", "t", ";">>,
      ScriptOpen \o <<">", "a">> \o ScriptClose \o <<"a">> }

Entry(kind, s) == [kind |-> kind, str |-> s]

ShapeNames ==
    { "flat", "nested", "slice", "array", "mapString", "mapOther", "shared",
      "unexpString", "unexpAfter", "unexpStruct", "embedded", "unexpOther",
      "interface", "string", "mapRoot" }

Shape(name, s, t) ==
    CASE name = "flat" ->
            \* struct { Name string; Age int; Note string }
            << StructNode(<<2, 3, 4>>, <<"exp", "exp", "exp">>),
               StringNode(s), IntNode(7), StringNode(t) >>
      [] name = "nested" ->
            \* struct { Name string; Child *struct { Title string; Next *T } }
            << StructNode(<<2, 3>>, <<"exp", "exp">>),
               StringNode(s), PtrNode(4),
               StructNode(<<5, 6>>, <<"exp", "exp">>),
               StringNode(t), PtrNode(0) >>
      [] name = "slice" ->
            \* struct { Items []struct { S string } }
            << StructNode(<<2>>, <<"exp">>),
               SliceNode(<<3, 4>>),
               StructNode(<<5>>, <<"exp">>), StructNode(<<6>>, <<"exp">>),
               StringNode(s), StringNode(t) >>
      [] name = "array" ->
            \* struct { Tags [2]string; On int }
            << StructNode(<<2, 5>>, <<"exp", "exp">>),
               ArrayNode(<<3, 4>>), StringNode(s), StringNode(t), IntNode(1) >>
      [] name = "mapString" ->
            \* struct { M map[string]string; N int }
            << StructNode(<<2, 3>>, <<"exp", "exp">>),
               MapNode([k \in {"k1", "k2"} |->
                          IF k = "k1" THEN Entry("string", s) ELSE Entry("string", t)]),
               IntNode(3) >>
      [] name = "mapOther" ->
            \* struct { M map[string]struct{ S string }; A map[string]any }
            << StructNode(<<2, 3>>, <<"exp", "exp">>),
               MapNode([k \in {"k1"} |-> Entry("struct", s)]),
               MapNode([k \in {"k1"} |-> Entry("interface", t)]) >>
      [] name = "shared" ->
            \* struct { A *T; B *T; C string } with A == B, T = struct { S string }
            << StructNode(<<2, 3, 6>>, <<"exp", "exp", "exp">>),
               PtrNode(4), PtrNode(4),
               StructNode(<<5>>, <<"exp">>), StringNode(s), StringNode(t) >>
      [] name = "unexpString" ->
            \* struct { Name string; secret string }
            << StructNode(<<2, 3>>, <<"exp", "unexp">>),
               StringNode(s), StringNode(t) >>
      [] name = "unexpAfter" ->
            \* struct { secret string; Name string }
            << StructNode(<<2, 3>>, <<"unexp", "exp">>),
               StringNode(s), StringNode(t) >>
      [] name = "unexpStruct" ->
            \* struct { Name string; inner struct { S string } }
            << StructNode(<<2, 3>>, <<"exp", "unexp">>),
               StringNode(s),
               StructNode(<<4>>, <<"exp">>), StringNode(t) >>
      [] name = "embedded" ->
            \* struct { Name string; inner } with type inner struct { S string }
            << StructNode(<<2, 3>>, <<"exp", "embed">>),
               StringNode(s),
               StructNode(<<4>>, <<"exp">>), StringNode(t) >>
      [] name = "unexpOther" ->
            \* struct { count int; next *T; m map[string]string; Name string }
            << StructNode(<<2, 3, 4, 5>>, <<"unexp", "unexp", "unexp", "exp">>),
               IntNode(2), PtrNode(0),
               MapNode([k \in {"k1"} |-> Entry("string", s)]),
               StringNode(t) >>
      [] name = "interface" ->
            \* struct { V any; Name string } with V holding a string
            << StructNode(<<2, 3>>, <<"exp", "exp">>),
               InterfaceNode(s), StringNode(t) >>
      [] name = "string" ->
            \* a string and, beside it, a slice of strings
            << StringNode(s), SliceNode(<<3>>), StringNode(t) >>
      [] OTHER ->
            \* "mapRoot": map[string]string
            << MapNode([k \in {"k1", "k2"} |->
                          IF k = "k1" THEN Entry("string", s) ELSE Entry("string", t)]) >>

\* the arguments SanitizeStruct is called with
Targets(h) ==
    {NilTarget, PtrTarget(0)}
        \cup {PtrTarget(n) : n \in {1} \cup {k \in DOMAIN h : h[k].kind = "slice"}}
        \cup {ValTarget(n) : n \in {1} \cup {k \in DOMAIN h : h[k].kind \in {"slice", "map"}}}

\* ------------------------------------------------------------------
\* Specification of one SanitizeStruct call
\* ------------------------------------------------------------------

Init ==
    /\ pc = "call"
    /\ trimNul \in BOOLEAN
    /\ input = <<>> /\ clean = None /\ again = None
    /\ \E name \in ShapeNames, s \in LeafStrs, t \in LeafStrs :
            heap = Shape(name, s, t)
    /\ heap0 = heap
    /\ target \in Targets(heap)
    /\ stack = <<>>
    /\ ret = "done"
    /\ depths = <<>>
    /\ visits = [n \in DOMAIN heap |-> 0]
    /\ query = None /\ filterDto = None
    /\ handler = "none" /\ typeT = "none"
    /\ pathVal = <<>> /\ body = None /\ itemID = 0 /\ data = <<>>
    /\ resp = None /\ calls = <<>>

Next == SanitizeStruct \/ SanitizeValue \/ Return

Spec == Init /\ [][Next]_vars

\* C1: SanitizeString's result holds no <script ...>...</script> sequence.
C1_NoScriptBlock == clean # None => ~HasScriptBlock(clean)

\* C2: SanitizeString is idempotent: sanitizing the result again gives the
\* result back.
C2_Idempotent == again # None => again = clean

\* C8: SanitizeString's result has no leading and no trailing whitespace.
C8_NoOuterWhitespace ==
    (clean # None /\ clean # <<>>) =>
        (Head(clean) \notin Whitespace /\ clean[Len(clean)] \notin Whitespace)

\* ------------------------------------------------------------------
\* The request helpers
\* ------------------------------------------------------------------

PathIDKey == "__path_id__"
RequestKey == "__request__"
FilterKey == "__filter__"

\* strconv.Atoi: an optional sign and then digits only; 0 with an error for
\* anything else
Atoi(s) ==
    LET signed == s # <<>> /\ Head(s) \in {"+", "-"}
        ds == IF signed THEN Tail(s) ELSE s
        good == ds # <<>> /\ \A i \in 1..Len(ds) : ds[i] \in Digits
    IN  IF ~good THEN [val |-> 0, err |-> TRUE]
        ELSE [val |-> IF signed /\ Head(s) = "-" THEN 0 - DecimalValue(ds)
                      ELSE DecimalValue(ds),
              err |-> FALSE]

\* PathID with the lower limit one too low: zero passes as an id
PathIDAllowsZero(path) ==
    LET a == Atoi(path)
    IN  [id |-> a.val, err |-> a.err \/ a.val < 0]

\* PathID(c): the id, and whether an *Error comes with it
PathID(path) ==
    LET a == Atoi(path)
    IN  [id |-> a.val, err |-> a.err \/ a.val < 1]

\* The request type T of the README: struct { ID int; Name string
\* `validate:"required"` }, as "hidden" with an unexported string field
\* after them.  ProcessUpdateData's T is a pointer to it: location 1 is then
\* the variable requestData and the struct follows it.
RootOf(h) == IF h = "ProcessUpdateData" THEN 2 ELSE 1

RequestNodes(T, r, id, name) ==
    IF T = "hidden"
    THEN << StructNode(<<r + 1, r + 2, r + 3>>, <<"exp", "exp", "unexp">>),
            IntNode(id), StringNode(name), StringNode(<<>>) >>
    ELSE << StructNode(<<r + 1, r + 2>>, <<"exp", "exp">>),
            IntNode(id), StringNode(name) >>

\* var requestData T
ZeroRequest(h, T) ==
    IF h = "ProcessUpdateData"
    THEN <<PtrNode(0)>> \o RequestNodes(T, 2, 0, <<>>)
    ELSE RequestNodes(T, 1, 0, <<>>)

\* Parse(c, &requestData) on a well-formed body
Parsed(h, T, b) ==
    IF h = "ProcessUpdateData"
    THEN <<PtrNode(2)>> \o RequestNodes(T, 2, b.id, b.name)
    ELSE RequestNodes(T, 1, b.id, b.name)

\* requestData as the validator and the handler see it
Request(g, h) == [ID |-> g[RootOf(h) + 1].num, Name |-> g[RootOf(h) + 2].str]

\* requestData.SetID(id), with the pointer receiver the interface asks for
SetIDOnCopy(g, h, id) == g

SetID(g, h, id) == [g EXCEPT ![RootOf(h) + 1].num = id]

\* Validate(requestData): whether an *Error comes back; the rule of the
\* README's request types is `required` on Name
ValidateIgnored(req) == FALSE

Validate(req) == req.Name = <<>>

\* ProcessData, up to its call of SanitizeStruct
ProcessData ==
    /\ pc = "ProcessData"
    /\ IF ~body.ok
       THEN /\ calls' = calls \o <<"Parse">>
            /\ resp' = "error"
            /\ pc' = "returned"
            /\ UNCHANGED <<heap, heap0, target, ret>>
       ELSE /\ calls' = calls \o <<"Parse">>
            /\ heap' = Parsed(handler, typeT, body)
            /\ heap0' = heap'
            /\ target' = PtrTarget(1)
            /\ ret' = "ProcessData.validate"
            /\ pc' = "call"
            /\ UNCHANGED resp
    /\ UNCHANGED <<trimNul, strVars, stack, countVars, handler, typeT, pathVal, body, itemID, data, filterVars>>

\* ProcessData, from SanitizeStruct's return on
ProcessDataValidate ==
    /\ pc = "ProcessData.validate"
    /\ IF Validate(Request(heap, handler))
       THEN /\ calls' = calls \o <<"Validate">>
            /\ resp' = "error"
            /\ UNCHANGED data
       ELSE /\ calls' = calls \o <<"Validate", "SetData">>
            /\ data' = [k \in DOMAIN data \cup {RequestKey} |->
                            IF k = RequestKey THEN Request(heap, handler) ELSE data[k]]
            /\ resp' = "nil"
    /\ pc' = "returned"
    /\ UNCHANGED <<trimNul, strVars, walkVars, handler, typeT, pathVal, body, itemID, filterVars>>

\* ProcessUpdateData, up to its call of SanitizeStruct
ProcessUpdateData ==
    /\ pc = "ProcessUpdateData"
    /\ IF PathID(pathVal).err
       THEN /\ calls' = calls \o <<"PathID">>
            /\ itemID' = PathID(pathVal).id
            /\ resp' = "error"
            /\ pc' = "returned"
            /\ UNCHANGED <<heap, heap0, target, ret>>
       ELSE IF ~body.ok
       THEN /\ calls' = calls \o <<"PathID", "Parse">>
            /\ itemID' = PathID(pathVal).id
            /\ resp' = "error"
            /\ pc' = "returned"
            /\ UNCHANGED <<heap, heap0, target, ret>>
       ELSE /\ calls' = calls \o <<"PathID", "Parse">>
            /\ itemID' = PathID(pathVal).id
            /\ heap' = Parsed(handler, typeT, body)
            /\ heap0' = heap'
            /\ target' = PtrTarget(1)
            /\ ret' = "ProcessUpdateData.setID"
            /\ pc' = "call"
            /\ UNCHANGED resp
    /\ UNCHANGED <<trimNul, strVars, stack, countVars, handler, typeT, pathVal, body, data, filterVars>>

\* ProcessUpdateData, from SanitizeStruct's return on
ProcessUpdateDataSetID ==
    /\ pc = "ProcessUpdateData.setID"
    /\ heap' = SetID(heap, handler, itemID)
    /\ IF Validate(Request(heap', handler))
       THEN /\ calls' = calls \o <<"SetID", "Validate">>
            /\ resp' = "error"
            /\ UNCHANGED data
       ELSE /\ calls' = calls \o <<"SetID", "Validate", "SetData">>
            /\ data' = [k \in DOMAIN data \cup {RequestKey} |->
                            IF k = RequestKey THEN Request(heap', handler) ELSE data[k]]
            /\ resp' = "nil"
    /\ pc' = "returned"
    /\ UNCHANGED <<trimNul, strVars, heap0, target, stack, ret, countVars>>
    /\ UNCHANGED <<handler, typeT, pathVal, body, itemID, filterVars>>

\* ------------------------------------------------------------------
\* Specification of one request through a helper
\* ------------------------------------------------------------------

PathVals ==
    { <<>>, <<"a">>, <<"0">>, <<"-", "1">>, <<"1">>, <<"2">>, <<"1", "2">>, <<"2", "a">>,
      <<"+", "1">> }

BodyIDs == {0, 2, 5}

BodyNames ==
    { <<>>, <<"a">>, <<" ">>, <<" ", "a", NUL>>,
      ScriptOpen \o <<">", "a">> \o ScriptClose,
      Amp \o <<"l", "t", ";">> }

Bodies ==
    {[ok |-> FALSE, id |-> 0, name |-> <<>>]}
        \cup {[ok |-> TRUE, id |-> i, name |-> n] : i \in BodyIDs, n \in BodyNames}

\* ProcessPathID(c): PathID, then c.Error or c.SetData(PathIDKey, itemID)
ProcessPathID ==
    /\ pc = "ProcessPathID"
    /\ itemID' = PathID(pathVal).id
    /\ IF PathID(pathVal).err
       THEN /\ calls' = calls \o <<"PathID">>
            /\ resp' = "error"
            /\ UNCHANGED data
       ELSE /\ calls' = calls \o <<"PathID", "SetData">>
            /\ data' = [k \in DOMAIN data \cup {PathIDKey} |->
                            IF k = PathIDKey THEN itemID' ELSE data[k]]
            /\ resp' = "nil"
    /\ pc' = "returned"
    /\ UNCHANGED <<trimNul, strVars, walkVars, handler, typeT, pathVal, body, filterVars>>

\* c.QueryInt(key) of the core library with its error dropped: the number
\* the text stands for, and on a text that is no number the value the
\* library returns beside its error, errVal (0 or -1, the library's choice).
QueryInt(s, errVal) ==
    LET a == Atoi(s) IN IF a.err THEN errVal ELSE a.val

\* FilterData with the per_page limit one too low: zero is kept
FilterDataZeroLimit(q, errPage, errLimit) ==
    LET page == QueryInt(q.page, errPage)
        limit == QueryInt(q.per_page, errLimit)
    IN  [Page |-> IF page < 1 THEN 1 ELSE page,
         PerPage |-> IF limit < 0 THEN 10 ELSE limit,
         Keyword |-> q.keyword,
         OrderBy |-> q.order_by]

\* FilterData(c): the Filter built from the query q.  A missing parameter
\* is the empty text, for QueryInt as for QueryStr.
FilterData(q, errPage, errLimit) ==
    LET page == QueryInt(q.page, errPage)
        limit == QueryInt(q.per_page, errLimit)
    IN  [Page |-> IF page < 1 THEN 1 ELSE page,
         PerPage |-> IF limit < 1 THEN 10 ELSE limit,
         Keyword |-> q.keyword,
         OrderBy |-> q.order_by]

\* ProcessFilter(c): FilterData, Validate, then c.Error or
\* c.SetData(FilterKey, filterDto).  The verdict of the validation library
\* on a Filter is the library's: either outcome is taken.
ProcessFilter ==
    /\ pc = "ProcessFilter"
    /\ \E errPage \in {0, -1}, errLimit \in {0, -1}, valid \in BOOLEAN :
        /\ filterDto' = FilterData(query, errPage, errLimit)
        /\ IF ~valid
           THEN /\ calls' = calls \o <<"FilterData", "Validate">>
                /\ resp' = "error"
                /\ UNCHANGED data
           ELSE /\ calls' = calls \o <<"FilterData", "Validate", "SetData">>
                /\ data' = [k \in DOMAIN data \cup {FilterKey} |->
                                IF k = FilterKey THEN filterDto' ELSE data[k]]
                /\ resp' = "nil"
    /\ pc' = "returned"
    /\ UNCHANGED <<trimNul, strVars, walkVars, handler, typeT, pathVal, body, itemID, query>>

\* the texts a query carries for keyword and order_by
QueryStrs == { <<>>, <<"a">>, <<" ", "<", "a", NUL>> }

Queries ==
    [page : PathVals, per_page : PathVals, keyword : QueryStrs, order_by : QueryStrs]

BodyHandlers == {"ProcessData", "ProcessUpdateData"}

\* Each helper starts on a fresh context with the inputs it reads; what it
\* never reads is left empty.
InitProcess ==
    /\ handler \in BodyHandlers \cup {"ProcessPathID", "ProcessFilter"}
    /\ pc = handler
    /\ typeT \in IF handler \in BodyHandlers THEN {"plain", "hidden"} ELSE {"plain"}
    /\ trimNul \in IF handler \in BodyHandlers THEN BOOLEAN ELSE {TRUE}
    /\ input = <<>> /\ clean = None /\ again = None
    /\ heap = IF handler \in BodyHandlers THEN ZeroRequest(handler, typeT) ELSE <<>>
    /\ heap0 = heap
    /\ target = NilTarget
    /\ stack = <<>>
    /\ ret = "done"
    /\ depths = <<>>
    /\ visits = <<>>
    /\ pathVal \in IF handler = "ProcessFilter" THEN {<<>>} ELSE PathVals
    /\ body \in IF handler \in BodyHandlers THEN Bodies
                ELSE {[ok |-> FALSE, id |-> 0, name |-> <<>>]}
    /\ query \in IF handler = "ProcessFilter" THEN Queries ELSE {None}
    /\ filterDto = None
    /\ itemID = 0
    /\ data = <<>>
    /\ resp = None
    /\ calls = <<>>

NextProcess ==
    \/ ProcessData
    \/ ProcessDataValidate
    \/ ProcessUpdateData
    \/ ProcessUpdateDataSetID
    \/ ProcessPathID
    \/ ProcessFilter
    \/ SanitizeStruct
    \/ SanitizeValue
    \/ Return

SpecProcess == InitProcess /\ [][NextProcess]_vars

\* ------------------------------------------------------------------
\* Claims about one SanitizeStruct call
\* ------------------------------------------------------------------

\* the locations one step away from n: through a non-nil pointer, a struct
\* field with one of the visibilities in through, or an element
Successors(h, n, through) ==
    CASE h[n].kind = "ptr" -> {h[n].ptr} \ {0}
      [] h[n].kind = "struct" ->
            {h[n].kids[i] : i \in {j \in 1..Len(h[n].kids) : h[n].vis[j] \in through}}
      [] h[n].kind \in {"slice", "array"} -> {h[n].kids[i] : i \in 1..Len(h[n].kids)}
      [] OTHER -> {}

RECURSIVE ReachFrom(_, _, _)
ReachFrom(h, S, through) ==
    LET more == S \cup UNION {Successors(h, n, through) : n \in S}
    IN  IF more = S THEN S ELSE ReachFrom(h, more, through)

\* the locations held in struct fields that cannot be set
UnsettableFields(h) ==
    UNION {{h[n].kids[i] : i \in {j \in 1..Len(h[n].kids) : h[n].vis[j] # "exp"}} :
             n \in {m \in DOMAIN h : h[m].kind = "struct"}}

CalledOnPointer == target.tag = "ptr" /\ target.node # 0

IsDirty(s) == SanitizeString(s, trimNul) # s

\* C3: after SanitizeStruct(p), p a non-nil pointer, every string reachable
\* from p through non-nil pointers, exported fields and elements holds
\* SanitizeString of what it held before.
C3_LeavesSanitized ==
    (pc = "done" /\ CalledOnPointer) =>
        \A n \in ReachFrom(heap0, {target.node}, {"exp"}) :
            heap0[n].kind = "string" =>
                heap[n].str = SanitizeString(heap0[n].str, trimNul)

\* C4: SanitizeStruct on a value with a struct field that cannot be set does
\* not panic and leaves what that field holds as it was.
C4_UnsettableSkipped ==
    (CalledOnPointer /\ UnsettableFields(heap0) # {}) =>
        /\ pc # "panic"
        /\ pc = "done" =>
            \A n \in ReachFrom(heap0, UnsettableFields(heap0), {"exp", "unexp", "embed"}) :
                heap[n] = heap0[n]

\* a sanitizeValue call on a map is about to run
AtMap ==
    /\ pc = "walk"
    /\ stack # <<>>
    /\ IsValid(Head(stack))
    /\ Kind(heap, Head(stack)) = "map"

C6_NoOpWithoutPointer ==
    (target.tag \in {"nil", "val"}) => (pc # "panic" /\ heap = heap0)

\* SanitizeStruct returned from a call on a non-pointer that holds a string
\* SanitizeString would change
C6_Witness ==
    /\ pc = "done"
    /\ target.tag = "val"
    /\ \E n \in ReachFrom(heap, {target.node}, {"exp"}) :
        \/ heap[n].kind = "string" /\ IsDirty(heap[n].str)
        \/ /\ heap[n].kind = "map"
           /\ \E k \in DOMAIN heap[n].ents : IsDirty(heap[n].ents[k].str)

\* C7: SanitizeStruct changes strings only: ints, pointers, the fields of a
\* struct, the elements of a slice or array, the keys of a map and its
\* entries that are not strings stay as they were.
C7_OnlyStringsChange ==
    /\ DOMAIN heap = DOMAIN heap0
    /\ \A n \in DOMAIN heap :
        /\ heap[n].kind = heap0[n].kind
        /\ heap[n].num = heap0[n].num
        /\ heap[n].ptr = heap0[n].ptr
        /\ heap[n].kids = heap0[n].kids
        /\ heap[n].vis = heap0[n].vis
        /\ heap[n].kind # "string" => heap[n].str = heap0[n].str
        /\ DOMAIN heap[n].ents = DOMAIN heap0[n].ents
        /\ \A k \in DOMAIN heap[n].ents :
            /\ heap[n].ents[k].kind = heap0[n].ents[k].kind
            /\ heap[n].ents[k].kind # "string" => heap[n].ents[k] = heap0[n].ents[k]

\* a call that changed a string returned, in a graph that holds an int, a
\* nil pointer or a map entry that is no string
C7_Witness ==
    /\ pc = "done"
    /\ heap # heap0
    /\ \E n \in DOMAIN heap :
        \/ heap[n].kind = "int"
        \/ heap[n].kind = "ptr" /\ heap[n].ptr = 0
        \/ \E k \in DOMAIN heap[n].ents : heap[n].ents[k].kind # "string"

\* ------------------------------------------------------------------
\* Claims about the request helpers
\* ------------------------------------------------------------------

IsPrefix(a, b) == Len(a) <= Len(b) /\ a = SubSeq(b, 1, Len(a))

\* the request the body stands for, once sanitized
SanitizedBody == [ID |-> body.id, Name |-> SanitizeString(body.name, trimNul)]

\* C9: ProcessData parses, sanitizes, validates and stores, in this order; a
\* value is under RequestKey only if the body parsed and the sanitized value
\* passed validation (Name is required), it is the sanitized value, and
\* when parsing or validation fails an error is returned and nothing is
\* stored.
C9_ProcessDataOrder ==
    handler = "ProcessData" =>
        /\ IsPrefix(calls, <<"Parse", "SanitizeStruct", "Validate", "SetData">>)
        /\ RequestKey \in DOMAIN data =>
            /\ body.ok
            /\ SanitizedBody.Name # <<>>
            /\ data[RequestKey] = SanitizedBody
            /\ calls = <<"Parse", "SanitizeStruct", "Validate", "SetData">>
        /\ (pc = "returned" /\ (~body.ok \/ SanitizedBody.Name = <<>>)) =>
            (resp = "error" /\ RequestKey \notin DOMAIN data)

\* ProcessData stored a request whose Name the sanitizer changed
C9_Witness ==
    /\ handler = "ProcessData"
    /\ pc = "returned"
    /\ RequestKey \in DOMAIN data
    /\ data[RequestKey].Name # body.name

C11_PathIDStoredIffPositive ==
    (handler = "ProcessPathID" /\ pc = "returned") =>
        LET a == Atoi(pathVal)
            positive == ~a.err /\ a.val >= 1
        IN  /\ (PathIDKey \in DOMAIN data) <=> positive
            /\ positive => (data[PathIDKey] = a.val /\ resp = "nil")
            /\ ~positive => (resp = "error" /\ data = <<>>)

\* ProcessPathID has stored the id of the path "12"
C11_Witness ==
    /\ handler = "ProcessPathID"
    /\ pc = "returned"
    /\ pathVal = <<"1", "2">>
    /\ PathIDKey \in DOMAIN data
    /\ data[PathIDKey] = 12

\* ---------------------------------------------------------------------
\* C12: whatever the query carries for page and per_page (nothing, no
\* number, zero, a negative or a positive number), the Filter FilterData
\* returns has Page >= 1 and PerPage >= 1: Page is the page given when that
\* is at least 1 and 1 otherwise, PerPage is the per_page given when that
\* is at least 1 and 10 otherwise, and Keyword and OrderBy are the query's
\* texts as they came.
C12_FilterDefaults ==
    (handler = "ProcessFilter" /\ pc = "returned") =>
        LET p == Atoi(query.page)
            l == Atoi(query.per_page)
        IN  /\ filterDto.Page >= 1
            /\ filterDto.PerPage >= 1
            /\ filterDto.Page = IF ~p.err /\ p.val >= 1 THEN p.val ELSE 1
            /\ filterDto.PerPage = IF ~l.err /\ l.val >= 1 THEN l.val ELSE 10
            /\ filterDto.Keyword = query.keyword
            /\ filterDto.OrderBy = query.order_by

\* FilterData has answered a query with no number for page, zero for
\* per_page and a keyword that is not clean, and the Filter is stored
C12_Witness ==
    /\ handler = "ProcessFilter"
    /\ pc = "returned"
    /\ query.page = <<"a">>
    /\ query.per_page = <<"0">>
    /\ query.keyword = <<" ", "<", "a", NUL>>
    /\ filterDto.PerPage = 10
    /\ FilterKey \in DOMAIN data
    /\ data[FilterKey] = filterDto

\* ---------------------------------------------------------------------
\* Termination of the walk
\* ---------------------------------------------------------------------

\* an interface value holding a pointer to location n
InterfaceOf(n) ==
    [kind |-> "interface", str |-> <<>>, num |-> 0, ptr |-> n, kids |-> <<>>, vis |-> <<>>, ents |-> <<>>]

\* a map entry holding a pointer to location n
EntryPtr(n) == [kind |-> "ptr", str |-> <<>>, ptr |-> n]

CyclicNames ==
    { "selfLoop", "loopFirst", "ring", "sliceLoop", "hiddenLoop", "secretLoop",
      "interfaceLoop", "mapLoop" }

\* Value graphs that hold a pointer back to a location they start from
CyclicShape(name, s) ==
    CASE name = "selfLoop" ->
            \* type T struct { Name string; Next *T }, with t.Next = &t
            << StructNode(<<2, 3>>, <<"exp", "exp">>), StringNode(s), PtrNode(1) >>
      [] name = "loopFirst" ->
            \* type T struct { Next *T; Name string }, with t.Next = &t
            << StructNode(<<2, 3>>, <<"exp", "exp">>), PtrNode(1), StringNode(s) >>
      [] name = "ring" ->
            \* type T struct { Next *T }, with a.Next = &b and b.Next = &a
            << StructNode(<<2>>, <<"exp">>), PtrNode(3),
               StructNode(<<4>>, <<"exp">>), PtrNode(1) >>
      [] name = "sliceLoop" ->
            \* type T struct { Items []*T; Name string }, with t.Items[0] = &t
            << StructNode(<<2, 4>>, <<"exp", "exp">>),
               SliceNode(<<3>>), PtrNode(1), StringNode(s) >>
      [] name = "hiddenLoop" ->
            \* type T struct { next *T }, with t.next = &t
            << StructNode(<<2>>, <<"unexp">>), PtrNode(1) >>
      [] name = "secretLoop" ->
            \* type T struct { secret string; Next *T }, with t.Next = &t
            << StructNode(<<2, 3>>, <<"unexp", "exp">>), StringNode(s), PtrNode(1) >>
      [] name = "interfaceLoop" ->
            \* type T struct { Name string; Self any }, with t.Self = &t
            << StructNode(<<2, 3>>, <<"exp", "exp">>), StringNode(s), InterfaceOf(1) >>
      [] OTHER ->
            \* "mapLoop": type T struct { M map[string]*T }, with t.M["k1"] = &t
            << StructNode(<<2>>, <<"exp">>),
               MapNode([k \in {"k1"} |-> EntryPtr(1)]) >>

\* the strings the graphs of the termination runs hold: one that is clean
\* and one that is not
WalkStrs == { <<"a">>, <<" ", "a", " ">> }

\* Before the call: the caller has built nothing yet
InitTermination ==
    /\ pc = "construct"
    /\ trimNul \in BOOLEAN
    /\ input = <<>> /\ clean = None /\ again = None
    /\ heap = <<>>
    /\ heap0 = heap
    /\ target = NilTarget
    /\ stack = <<>>
    /\ ret = "done"
    /\ depths = <<>>
    /\ visits = <<>>
    /\ query = None /\ filterDto = None
    /\ handler = "none" /\ typeT = "none"
    /\ pathVal = <<>> /\ body = None /\ itemID = 0 /\ data = <<>>
    /\ resp = None /\ calls = <<>>

\* The caller builds the value it hands to SanitizeStruct: any of the
\* graphs, with or without a cycle, and any argument on it
Construct ==
    /\ pc = "construct"
    /\ \/ \E name \in ShapeNames, s \in WalkStrs, t \in WalkStrs :
            heap' = Shape(name, s, t)
       \/ \E name \in CyclicNames, s \in WalkStrs :
            heap' = CyclicShape(name, s)
    /\ heap0' = heap'
    /\ target' \in Targets(heap')
    /\ visits' = [n \in DOMAIN heap' |-> 0]
    /\ pc' = "call"
    /\ UNCHANGED <<trimNul, strVars, stack, ret, depths, procVars>>

NextTermination == Construct \/ SanitizeStruct \/ SanitizeValue \/ Return

\* The call runs on one goroutine with nothing to wait for: a step that
\* can be taken is taken.
SpecTermination ==
    InitTermination /\ [][NextTermination]_vars /\ WF_vars(NextTermination)

AllFields == {"exp", "unexp", "embed"}

\* the locations a value refers to at all: what the walk follows, and the
\* pointers held in interface values and in map entries
GraphSuccessors(h, n) ==
    Successors(h, n, AllFields)
        \cup (IF h[n].kind = "interface" THEN {h[n].ptr} \ {0} ELSE {})
        \cup (IF h[n].kind = "map"
              THEN {h[n].ents[k].ptr :
                        k \in {j \in DOMAIN h[n].ents : h[n].ents[j].kind = "ptr"}}
              ELSE {})

RECURSIVE GraphReach(_, _)
GraphReach(h, S) ==
    LET more == S \cup UNION {GraphSuccessors(h, n) : n \in S}
    IN  IF more = S THEN S ELSE GraphReach(h, more)

\* the pointer handed to SanitizeStruct leads into a graph with a pointer
\* cycle
GraphCycle ==
    /\ CalledOnPointer
    /\ \E n \in GraphReach(heap0, {target.node}) :
            n \in GraphReach(heap0, GraphSuccessors(heap0, n))

\* SanitizeStruct got a pointer, and a cycle lies on the way the walk takes
\* from it: through pointers, fields (exported or not) and elements
TraversalCycle ==
    /\ CalledOnPointer
    /\ \E n \in ReachFrom(heap0, {target.node}, AllFields) :
            n \in ReachFrom(heap0, Successors(heap0, n, AllFields), AllFields)

\* the number of ways from location m to location n in at most k steps of
\* the walk
RECURSIVE Walks(_, _, _, _)
Walks(h, m, n, k) ==
    LET S == Successors(h, m, AllFields)
        RECURSIVE Sum(_)
        Sum(T) == IF T = {} THEN 0
                  ELSE LET x == CHOOSE y \in T : TRUE
                       IN  Walks(h, x, n, k - 1) + Sum(T \ {x})
    IN  (IF m = n THEN 1 ELSE 0) + (IF k = 0 THEN 0 ELSE Sum(S))

\* each location got at most two calls for each way the walk has to it
\* (one on its address, one on the location), and none without a pointer
VisitsBounded ==
    \A n \in DOMAIN visits :
        visits[n] <= IF CalledOnPointer
                     THEN 2 * Walks(heap0, target.node, n, Len(heap0))
                     ELSE 0

Terminated == pc \in {"done", "panic"}

\* C13 as stated: on a graph without a cycle SanitizeStruct comes to an
\* end, with a bounded number of calls on each location; on a graph with a
\* pointer cycle it never comes to an end (read here as: it never returns).
C13_TerminatesIffAcyclic ==
    /\ [](~GraphCycle => VisitsBounded)
    /\ (pc = "call" /\ ~GraphCycle) ~> Terminated
    /\ [](GraphCycle => pc # "done")

\* C13: when no cycle lies on the way the walk takes, SanitizeStruct comes
\* to an end (it returns, or panics at a string it cannot set), never
\* exhausts the stack, and makes at most two calls on a location for each
\* way to it; when a cycle lies on that way, SanitizeStruct never returns:
\* it recurses until the stack is exhausted, unless it panics first.
C13_TerminatesUnlessTraversedCycle ==
    /\ [](~TraversalCycle => (pc # "overflow" /\ VisitsBounded))
    /\ (pc = "call" /\ ~TraversalCycle) ~> Terminated
    /\ [](TraversalCycle => pc # "done")
    /\ (pc = "call" /\ TraversalCycle) ~> (pc \in {"overflow", "panic"})

\* the walk of a struct whose Next points back at it has exhausted the
\* stack, having been on the struct more than twice
C13_Witness ==
    /\ pc = "overflow"
    /\ TraversalCycle
    /\ heap0[1].kind = "struct"
    /\ visits[1] > 2

====
